---- MODULE Spec2Model ----
(***************************************************************************)
(* pictocrab image preprocessing server (src/src/main.rs).                 *)
(*                                                                         *)
(* One connection thread (Main) services framed commands of one client at  *)
(* a time; a pool of gets_thread workers shares the cache                  *)
(* (cached_images, cached_paths) behind one RwLock.  Every action below is *)
(* one step of that code; a step that takes a lock, acts and drops the     *)
(* guard without blocking in between is one atomic action guarded by the   *)
(* lock being free.                                                        *)
(***************************************************************************)
EXTENDS Integers, Sequences, FiniteSets, TLC

\* ------------------------------------------------------------ constants
GETS_THREAD_COUNT == 12
MIN_AVAILABLE_MEMORY == 2
GIGA == 1000000000

\* ------------------------------------------------------------ bounds
\* Workers spawned in the interleaving specification Spec.  The program
\* spawns GETS_THREAD_COUNT of them; SpecChunks runs the dispatcher with
\* that many.
PoolSize == 2
\* Commands the clients send in one behaviour.
MaxCommands == 4
\* Environment failures in one behaviour (a fetch or decode that fails, a
\* write of a disk cache file that fails, a stream write that fails).
MaxFaults == 2
\* Client connections accepted in one behaviour.
MaxClients == 2
\* Longest path list of SpecChunks.
MaxBatchLen == 38

\* ------------------------------------------------------------ inputs
Main == 0
NoThread == 0 - 1

Paths == {"a", "b", "ab"}
Widths == {1, 2}
Heights == {1}

\* Path lists the clients send with gets.
Batches == {<<"ab">>, <<"a", "b">>, <<"a", "a", "b">>}

\* setup arguments: (disk_cache_dir, working_dir, threaded_reads).
ExistingDirs == {"w1", "w2"}
SetupArgs == {<<"c1", "w1", TRUE>>, <<"c2", "w2", FALSE>>, <<"c1", "nodir", TRUE>>}

\* Readings of sys.available_memory(), in bytes, either side of the threshold.
MemReadings == {MIN_AVAILABLE_MEMORY * GIGA - 1, MIN_AVAILABLE_MEMORY * GIGA}

\* Width and height of the images stored in the source files.
NativeExtent == <<2, 1>>

\* ------------------------------------------------------------ values
NoEntry == [tag |-> "None"]
InMemory(b) == [tag |-> "InMemory", bytes |-> b]
OnDisk(id) == [tag |-> "OnDisk", id |-> id]
NoFile == [src |-> "", w |-> 0, h |-> 0]
NoReq == [w |-> 0, h |-> 0, paths |-> <<>>]

Min(a, b) == IF a < b THEN a ELSE b

\* An encoded bitmap: the image of source `src` at extent (w, h).
Bmp(src, w, h) == [src |-> src, w |-> w, h |-> h]

\* img_bytes.len(): 54 bytes of headers, then h rows of 3-byte pixels padded
\* to a multiple of 4 bytes.
BytesLen(b) == 54 + b.h * (((3 * b.w + 3) \div 4) * 4)

\* image::load_from_memory, thumbnail_exact when the extent differs, write_to Bmp.
decode_resize_encode(path, width, height) ==
    LET img == Bmp(path, NativeExtent[1], NativeExtent[2])
    IN  IF img.w # width \/ img.h # height THEN Bmp(path, width, height) ELSE img

\* What a std::fs::write of b that failed midway leaves in the file: the headers
\* without the pixel rows.
Truncated(b) == [b EXCEPT !.h = 0]

\* std::fs::write, line 56: all written, Err before the file was created, Err
\* after it was created.
WriteOutcomes == {"all", "none", "part"}

\* send_image: the two writes, the length prefix then the payload.
LenPrefix(b) == [len |-> BytesLen(b)]
Frame(b) == <<LenPrefix(b), b>>

\* path.starts_with("https://")
IsRemote(path) == Len(path) >= 8 /\ SubSeq(path, 1, 8) = "https://"

\* paths.join("")
RECURSIVE Join(_)
Join(paths) == IF paths = <<>> THEN "" ELSE Head(paths) \o Join(Tail(paths))

\* paths.chunks(size), size > 0
RECURSIVE Chunks(_, _)
Chunks(paths, size) ==
    IF paths = <<>> THEN <<>>
    ELSE IF Len(paths) <= size THEN <<paths>>
    ELSE <<SubSeq(paths, 1, size)>> \o Chunks(SubSeq(paths, size + 1, Len(paths)), size)

\* while thread_chunks.len() > n: pop the last chunk and append it to the new last.
RECURSIVE MergeTail(_, _)
MergeTail(chunks, n) ==
    IF Len(chunks) <= n THEN chunks
    ELSE LET k == Len(chunks)
             merged == [chunks EXCEPT ![k - 1] = chunks[k - 1] \o chunks[k]]
         IN  MergeTail(SubSeq(merged, 1, k - 1), n)

\* slice::chunks panics on a chunk size of zero.
ChunksPanics(paths, n) == Len(paths) \div n = 0

thread_chunks(paths, n) == MergeTail(Chunks(paths, Len(paths) \div n), n)

RECURSIVE Flatten(_)
Flatten(chunks) == IF chunks = <<>> THEN <<>> ELSE Head(chunks) \o Flatten(Tail(chunks))

Range(s) == {s[i] : i \in DOMAIN s}

\* All orders in which HashMap::drain may yield the keys of set S.
RECURSIVE Orders(_)
Orders(S) ==
    IF S = {} THEN {<<>>}
    ELSE UNION {{<<x>> \o o : o \in Orders(S \ {x})} : x \in S}

\* ------------------------------------------------------------ state
VARIABLES
    CACHE_DIR,        \* OnceCell<String>: <<>> or <<dir>>
    THREADED_READS,   \* OnceCell<bool>: <<>> or <<flag>>
    cwd,              \* the process working directory
    cached_images,    \* CachedImages: path -> NoEntry, InMemory(bytes) or OnDisk(id)
    cached_paths,     \* CachedPaths: the recorded batch keys
    files,            \* {CACHE_DIR}/{id}.bmp: id -> contents, NoFile when absent
    lockWriter,       \* the thread holding the RwLock write guard, or NoThread
    lockReaders,      \* the threads holding a read guard
    pc,               \* thread -> its position in the code
    req,              \* worker -> the (width, height, paths) it received
    idx,              \* thread -> index of the path (Main in gets_recv: the chunk) in work
    sink,             \* Main: bytes written to the stream for the command in
                      \* progress; worker: its cursor
    reqCh,            \* worker -> messages in its request channel
    repCh,            \* worker -> messages in its reply channel
    cur,              \* the command Main read last, and how it ended
    client,           \* number of connections accepted so far
    faults,           \* environment failures so far
    inserted,         \* path -> the bytes of the latest cache_img since the last clear_cache
    insert_log,       \* the memory reading of the latest insert and the number of
                      \* disk-tier inserts since the last clear_cache, and whether
                      \* there was a clear_cache
    completed         \* path lists of the gets that returned Ok since the last clear_cache

cfgVars == <<CACHE_DIR, THREADED_READS, cwd>>
cacheVars == <<cached_images, cached_paths, files, inserted, insert_log>>
lockVars == <<lockWriter, lockReaders>>
ctlVars == <<pc, req, idx, sink, reqCh, repCh, cur, client, faults, completed>>
vars == <<cfgVars, cacheVars, lockVars, ctlVars>>

Workers == DOMAIN reqCh
Threads == {Main} \cup Workers
FileIds == 0 .. Cardinality(Paths)

Keys == {p \in Paths : cached_images[p] # NoEntry}
CanRead == lockWriter = NoThread
\* A write lock that does not wait for the readers to leave.
CanWrite_beside_readers == lockWriter = NoThread
CanWrite == lockWriter = NoThread /\ lockReaders = {}
Crashed == pc[Main] = "crashed"
Request(t) == IF t = Main THEN [w |-> cur.w, h |-> cur.h, paths |-> cur.paths] ELSE req[t]
CurPath(t) == Request(t).paths[idx[t]]
InGetImage(t) == pc[t] \in {"lookup", "diskread", "fetch", "localread", "insert"}

\* No insert since the cache was created or cleared.
NoInsert == [mem |-> 0, disk |-> 0, cleared |-> FALSE]

NoCmd ==
    [seq |-> 0, kind |-> "none", w |-> 0, h |-> 0, paths |-> <<>>, status |-> "ok",
     err |-> "", repeat |-> FALSE, dispatched |-> FALSE]

\* main, lines 256-270: the cache, then n workers with their channels.
Boot(n) ==
    /\ CACHE_DIR = <<>>
    /\ THREADED_READS = <<>>
    /\ cwd = "w0"
    /\ cached_images = [p \in Paths |-> NoEntry]
    /\ cached_paths = {}
    /\ files = [i \in FileIds |-> NoFile]
    /\ lockWriter = NoThread
    /\ lockReaders = {}
    /\ pc = [t \in 0 .. n |-> IF t = Main THEN "accept" ELSE "recv"]
    /\ req = [t \in 1 .. n |-> NoReq]
    /\ idx = [t \in 0 .. n |-> 0]
    /\ sink = [t \in 0 .. n |-> <<>>]
    /\ reqCh = [t \in 1 .. n |-> <<>>]
    /\ repCh = [t \in 1 .. n |-> <<>>]
    /\ cur = NoCmd
    /\ client = 0
    /\ faults = 0
    /\ inserted = [p \in Paths |-> NoFile]
    /\ insert_log = NoInsert
    /\ completed = {}

Init == Boot(PoolSize)

\* ------------------------------------------------------------ control
\* read_command has read a command: it becomes the command in progress.
NewCmd(kind, w, h, paths, repeat) ==
    [seq |-> cur.seq + 1, kind |-> kind, w |-> w, h |-> h, paths |-> paths,
     status |-> "run", err |-> "", repeat |-> repeat, dispatched |-> FALSE]

CanReadCommand == ~Crashed /\ pc[Main] = "read" /\ cur.seq < MaxCommands

Goto(t, l) ==
    /\ pc' = [pc EXCEPT ![t] = l]
    /\ UNCHANGED <<req, idx, sink, reqCh, repCh, cur, client, faults, completed>>

\* process_command returned Ok: read_loop reads the next command.
Returned(c) == [c EXCEPT !.status = "ok"]
Completed(c) == IF c.kind = "gets" THEN completed \cup {c.paths} ELSE completed

\* read_loop, line 244: the `?` ends the loop on any Err of read_command, main
\* logs it and waits for the next connection (lines 277-279).
Errored(c, e) == [c EXCEPT !.status = "err", !.err = e]
AfterError == "accept"

\* An Err in thread t.  In a worker gets_thread returns it: the thread ends and
\* drops its receiver (queued requests are lost) and its reply sender.
Fail(t, e, f) ==
    /\ faults' = f
    /\ IF t = Main
       THEN /\ pc' = [pc EXCEPT ![Main] = AfterError]
            /\ cur' = Errored(cur, e)
            /\ UNCHANGED <<req, idx, sink, reqCh, repCh, client, completed>>
       ELSE /\ pc' = [pc EXCEPT ![t] = "exited"]
            /\ reqCh' = [reqCh EXCEPT ![t] = <<>>]
            /\ req' = [req EXCEPT ![t] = NoReq]
            /\ idx' = [idx EXCEPT ![t] = 0]
            /\ sink' = [sink EXCEPT ![t] = <<>>]
            /\ UNCHANGED <<repCh, cur, client, completed>>

\* send_image(b, sink of t), then the rest of the loop over the paths.  A worker
\* writes to its cursor and, after the last path, sends the cursor (line 147).
\* Main writes to the stream, where either write may fail.
Deliver(t, b) ==
    LET last == idx[t] >= Len(Request(t).paths)
    IN  IF t # Main
        THEN /\ UNCHANGED <<reqCh, cur, client, faults, completed>>
             /\ IF last
                THEN /\ repCh' = [repCh EXCEPT ![t] = Append(@, sink[t] \o Frame(b))]
                     /\ pc' = [pc EXCEPT ![t] = "recv"]
                     /\ req' = [req EXCEPT ![t] = NoReq]
                     /\ idx' = [idx EXCEPT ![t] = 0]
                     /\ sink' = [sink EXCEPT ![t] = <<>>]
                ELSE /\ sink' = [sink EXCEPT ![t] = @ \o Frame(b)]
                     /\ idx' = [idx EXCEPT ![t] = @ + 1]
                     /\ pc' = [pc EXCEPT ![t] = "lookup"]
                     /\ UNCHANGED <<req, repCh>>
        ELSE \E written \in IF faults < MaxFaults THEN 0 .. 2 ELSE {2} :
                /\ sink' = [sink EXCEPT ![Main] = @ \o SubSeq(Frame(b), 1, written)]
                /\ UNCHANGED <<req, reqCh, repCh, client>>
                /\ IF written < 2
                   THEN /\ pc' = [pc EXCEPT ![Main] = AfterError]
                        /\ cur' = Errored(cur, "transport")
                        /\ faults' = faults + 1
                        /\ UNCHANGED <<idx, completed>>
                   ELSE /\ faults' = faults
                        /\ IF last
                           THEN /\ pc' = [pc EXCEPT ![Main] = "read"]
                                /\ cur' = Returned(cur)
                                /\ completed' = Completed(cur)
                                /\ idx' = [idx EXCEPT ![Main] = 0]
                           ELSE /\ pc' = [pc EXCEPT ![Main] = "lookup"]
                                /\ idx' = [idx EXCEPT ![Main] = @ + 1]
                                /\ UNCHANGED <<cur, completed>>

\* ------------------------------------------------------------ the cache
\* A tier test that also sends a reading of exactly the threshold to disk.
TiersToDisk_inclusive(available_memory) ==
    (available_memory \div GIGA) <= MIN_AVAILABLE_MEMORY

\* cache_img, line 54: the tier test.
TiersToDisk(available_memory) == (available_memory \div GIGA) < MIN_AVAILABLE_MEMORY

\* cache_img, line 55: unlocked_cache.0.len()
NextCacheId == Cardinality(Keys)

\* gets_images, line 156: unlocked_cache.1.contains(&paths_key)
all_cached(paths) == Join(paths) \in cached_paths

\* RecordBatch with the separator a join(",") would put between the paths, while
\* all_cached looks the key up without one.
RecordBatch_separated(paths) ==
    cached_paths \cup {IF paths = <<>> THEN "" ELSE Head(paths) \o Join([i \in 1 .. Len(paths) - 1 |-> "," \o paths[i + 1]])}

\* gets_images, line 183: unlocked_cache.1.insert(paths_key)
RecordBatch(paths) == cached_paths \cup {Join(paths)}

\* clear_cache, lines 201-208: the entries are drained in `order`; remove_file of
\* an OnDisk entry's file fails when the file is not there, the `?` returns and
\* the dropped Drain discards the entries left without touching their files.
RECURSIVE DrainFiles(_, _)
DrainFiles(order, fs) ==
    IF order = <<>> THEN [files |-> fs, ok |-> TRUE]
    ELSE LET e == cached_images[Head(order)]
         IN  IF e.tag # "OnDisk" THEN DrainFiles(Tail(order), fs)
             ELSE IF CACHE_DIR = <<>> \/ fs[e.id] = NoFile THEN [files |-> fs, ok |-> FALSE]
             ELSE DrainFiles(Tail(order), [fs EXCEPT ![e.id] = NoFile])

\* ------------------------------------------------------------ get_image
\* get_from_cache, lines 68-79, and the hit branch of get_image, lines 85-89.
\* The read guard lives to the end of get_from_cache, so an OnDisk entry's file
\* is read (disk_read) with the guard held.
get_from_cache(t) ==
    /\ ~Crashed
    /\ pc[t] = "lookup"
    /\ CanRead
    /\ UNCHANGED <<cfgVars, cacheVars, lockWriter>>
    /\ LET e == cached_images[CurPath(t)]
       IN  IF e.tag = "None"
           THEN /\ Goto(t, "fetch")
                /\ UNCHANGED lockReaders
           ELSE IF e.tag = "InMemory"
           THEN /\ Deliver(t, e.bytes)
                /\ UNCHANGED lockReaders
           ELSE /\ lockReaders' = lockReaders \cup {t}
                /\ Goto(t, "diskread")

\* get_from_cache, line 73: std::fs::read of the disk cache file, then the
\* guard is dropped; get_image, lines 86-88.
disk_read(t) ==
    /\ ~Crashed
    /\ pc[t] = "diskread"
    /\ lockReaders' = lockReaders \ {t}
    /\ UNCHANGED <<cfgVars, cacheVars, lockWriter>>
    /\ LET e == cached_images[CurPath(t)]
       IN  IF CACHE_DIR = <<>> \/ files[e.id] = NoFile
           THEN Fail(t, "cache", faults)
           ELSE Deliver(t, files[e.id])

\* get_image, lines 94-120 and 126-131: the fetch, then decode, resize and
\* encode.  A remote fetch takes no lock; a local read with threaded reads off
\* first takes the write guard (local_read finishes it).  The fetch or the
\* codec may fail.
fetch(t) ==
    /\ ~Crashed
    /\ pc[t] = "fetch"
    /\ UNCHANGED <<cfgVars, cacheVars, lockReaders>>
    /\ IF ~IsRemote(CurPath(t)) /\ THREADED_READS = <<>>
       THEN /\ Fail(t, "config", faults)
            /\ UNCHANGED lockWriter
       ELSE IF ~IsRemote(CurPath(t)) /\ ~THREADED_READS[1]
       THEN /\ CanWrite
            /\ lockWriter' = t
            /\ Goto(t, "localread")
       ELSE /\ UNCHANGED lockWriter
            /\ \E ok \in IF faults < MaxFaults THEN BOOLEAN ELSE {TRUE} :
                  IF ok THEN Goto(t, "insert") ELSE Fail(t, "fetch", faults + 1)

\* get_image, lines 114-116: the read under the write guard, which is dropped
\* when the block ends, also on the `?`.
local_read(t) ==
    /\ ~Crashed
    /\ pc[t] = "localread"
    /\ lockWriter' = NoThread
    /\ UNCHANGED <<cfgVars, cacheVars, lockReaders>>
    /\ \E ok \in IF faults < MaxFaults THEN BOOLEAN ELSE {TRUE} :
          IF ok THEN Goto(t, "insert") ELSE Fail(t, "fetch", faults + 1)

\* cache_img, lines 50-63, then send_image, line 136.  std::fs::write (line 56)
\* creates or truncates the file and then writes the bytes: it may fail before
\* the file is touched ("none") or after it was truncated ("part"), and the `?`
\* returns without the insert.
cache_img(t) ==
    /\ ~Crashed
    /\ pc[t] = "insert"
    /\ CanWrite
    /\ UNCHANGED <<cfgVars, cached_paths, lockVars>>
    /\ \E available_memory \in MemReadings :
          LET path == CurPath(t)
              b == decode_resize_encode(path, Request(t).w, Request(t).h)
              cache_id == NextCacheId
          IN  IF TiersToDisk(available_memory)
              THEN IF CACHE_DIR = <<>>
                   THEN /\ Fail(t, "config", faults)
                        /\ UNCHANGED <<cached_images, files, inserted, insert_log>>
                   ELSE \E wrote \in IF faults < MaxFaults THEN WriteOutcomes
                                                            ELSE {"all"} :
                           IF wrote = "all"
                           THEN /\ files' = [files EXCEPT ![cache_id] = b]
                                /\ cached_images' = [cached_images EXCEPT ![path] = OnDisk(cache_id)]
                                /\ inserted' = [inserted EXCEPT ![path] = b]
                                /\ insert_log' = [insert_log EXCEPT
                                                      !.mem = available_memory,
                                                      !.disk = @ + 1]
                                /\ Deliver(t, b)
                           ELSE /\ files' = IF wrote = "part"
                                            THEN [files EXCEPT ![cache_id] = Truncated(b)]
                                            ELSE files
                                /\ Fail(t, "write", faults + 1)
                                /\ UNCHANGED <<cached_images, inserted, insert_log>>
              ELSE /\ cached_images' = [cached_images EXCEPT ![path] = InMemory(b)]
                   /\ inserted' = [inserted EXCEPT ![path] = b]
                   /\ insert_log' = [insert_log EXCEPT !.mem = available_memory]
                   /\ UNCHANGED files
                   /\ Deliver(t, b)

\* ------------------------------------------------------------ workers
\* gets_thread, lines 142-143: receiver.recv() and the new cursor.
gets_thread(i) ==
    /\ ~Crashed
    /\ pc[i] = "recv"
    /\ reqCh[i] # <<>>
    /\ req' = [req EXCEPT ![i] = Head(reqCh[i])]
    /\ reqCh' = [reqCh EXCEPT ![i] = Tail(@)]
    /\ idx' = [idx EXCEPT ![i] = 1]
    /\ sink' = [sink EXCEPT ![i] = <<>>]
    /\ pc' = [pc EXCEPT ![i] = "lookup"]
    /\ UNCHANGED <<cfgVars, cacheVars, lockVars, repCh, cur, client, faults, completed>>

\* ------------------------------------------------------------ commands
\* main, lines 273-277: the next connection; read_loop starts on it.
accept ==
    /\ ~Crashed
    /\ pc[Main] = "accept"
    /\ client < MaxClients
    /\ client' = client + 1
    /\ pc' = [pc EXCEPT ![Main] = "read"]
    /\ UNCHANGED <<cfgVars, cacheVars, lockVars, req, idx, sink, reqCh, repCh, cur, faults,
                   completed>>

\* read_command, line 226: the client has closed the stream and the read of the
\* length prefix returns 0; read_command returns Ok(()), and read_loop (line
\* 244), which only leaves its loop on an Err, calls read_command again: Main is
\* in the read of line 226 once more.
EofCmd == [NoCmd EXCEPT !.seq = cur.seq, !.kind = "eof"]

read_eof ==
    /\ ~Crashed
    /\ pc[Main] = "read"
    /\ cur' = EofCmd
    /\ pc' = [pc EXCEPT ![Main] = "eof_read"]
    /\ UNCHANGED <<cfgVars, cacheVars, lockVars, req, idx, sink, reqCh, repCh, client, faults,
                   completed>>

\* read_command, line 226, on the closed stream: the read returns 0 again and
\* the loop goes round, or it returns an Err, which ends read_loop.
eof_read ==
    /\ ~Crashed
    /\ pc[Main] = "eof_read"
    /\ UNCHANGED <<cfgVars, cacheVars, lockVars, req, idx, sink, reqCh, repCh, client, faults,
                   completed>>
    /\ \E n \in {"zero", "err"} :
          IF n = "zero"
          THEN UNCHANGED <<pc, cur>>
          ELSE /\ cur' = Errored(cur, "closed")
               /\ pc' = [pc EXCEPT ![Main] = AfterError]

\* setup, lines 188-194.
setup(disk_cache_dir, working_dir, threaded_reads) ==
    /\ CanReadCommand
    /\ sink' = [sink EXCEPT ![Main] = <<>>]
    /\ UNCHANGED <<cacheVars, lockVars, req, idx, reqCh, repCh, client, faults, completed>>
    /\ LET c == NewCmd("setup", 0, 0, <<>>, CACHE_DIR # <<>>)
       IN  IF working_dir \notin ExistingDirs
           THEN /\ cur' = Errored(c, "io")
                /\ pc' = [pc EXCEPT ![Main] = AfterError]
                /\ UNCHANGED cfgVars
           ELSE /\ cwd' = working_dir
                /\ cur' = Returned(c)
                /\ pc' = [pc EXCEPT ![Main] = "read"]
                /\ IF CACHE_DIR # <<>>
                   THEN UNCHANGED <<CACHE_DIR, THREADED_READS>>
                   ELSE /\ CACHE_DIR' = <<disk_cache_dir>>
                        /\ THREADED_READS' = <<threaded_reads>>

\* clear_cache, lines 196-210, under the write guard.
clear_cache ==
    /\ CanReadCommand
    /\ CanWrite
    /\ sink' = [sink EXCEPT ![Main] = <<>>]
    /\ cached_paths' = {}
    /\ cached_images' = [p \in Paths |-> NoEntry]
    /\ inserted' = [p \in Paths |-> NoFile]
    /\ insert_log' = [NoInsert EXCEPT !.cleared = TRUE]
    /\ completed' = {}
    /\ UNCHANGED <<cfgVars, lockVars, req, idx, reqCh, repCh, client, faults>>
    /\ \E order \in Orders(Keys) :
          LET r == DrainFiles(order, files)
              c == NewCmd("clear_cache", 0, 0, <<>>, FALSE)
          IN  /\ files' = r.files
              /\ IF r.ok
                 THEN /\ cur' = Returned(c)
                      /\ pc' = [pc EXCEPT ![Main] = "read"]
                 ELSE /\ cur' = Errored(c, "cache")
                      /\ pc' = [pc EXCEPT ![Main] = AfterError]

\* process_command, line 217: get_image on the stream.
get(path, width, height) ==
    /\ CanReadCommand
    /\ sink' = [sink EXCEPT ![Main] = <<>>]
    /\ cur' = NewCmd("get", width, height, <<path>>, FALSE)
    /\ idx' = [idx EXCEPT ![Main] = 1]
    /\ pc' = [pc EXCEPT ![Main] = "lookup"]
    /\ UNCHANGED <<cfgVars, cacheVars, lockVars, req, reqCh, repCh, client, faults, completed>>

\* gets_images, lines 172-175: chunk i goes to worker i; a send to a worker that
\* has exited is an Err, after the sends before it.
\* A send that succeeds whether or not the receiving worker is alive.
SentTo_regardless(i, chunks) == i <= Len(chunks)

SentTo(i, chunks) ==
    i <= Len(chunks) /\ \A j \in 1 .. i : pc[j] # "exited"

\* gets_images, lines 152-175: the fast path test under the read guard, the
\* chunking and the sends.
gets_images(width, height, paths) ==
    /\ CanReadCommand
    /\ CanRead
    /\ sink' = [sink EXCEPT ![Main] = <<>>]
    /\ UNCHANGED <<cfgVars, cacheVars, lockVars, req, repCh, client, faults, completed>>
    /\ LET c == NewCmd("gets", width, height, paths, paths \in completed)
           n == Cardinality(Workers)
       IN  IF all_cached(paths)
           THEN /\ UNCHANGED reqCh
                /\ IF paths = <<>>
                   THEN /\ cur' = Returned(c)
                        /\ pc' = [pc EXCEPT ![Main] = "read"]
                        /\ UNCHANGED idx
                   ELSE /\ cur' = c
                        /\ pc' = [pc EXCEPT ![Main] = "lookup"]
                        /\ idx' = [idx EXCEPT ![Main] = 1]
           ELSE IF ChunksPanics(paths, n)
           THEN /\ cur' = Errored(c, "panic")
                /\ pc' = [pc EXCEPT ![Main] = "crashed"]
                /\ UNCHANGED <<reqCh, idx>>
           ELSE LET chunks == thread_chunks(paths, n)
                IN  /\ reqCh' = [i \in Workers |->
                                    IF SentTo(i, chunks)
                                    THEN Append(reqCh[i], [w |-> width, h |-> height,
                                                           paths |-> chunks[i]])
                                    ELSE reqCh[i]]
                    /\ IF \A i \in 1 .. Len(chunks) : SentTo(i, chunks)
                       THEN /\ cur' = [c EXCEPT !.dispatched = TRUE]
                            /\ pc' = [pc EXCEPT ![Main] = "gets_recv"]
                            /\ idx' = [idx EXCEPT ![Main] = 1]
                       ELSE /\ cur' = Errored([c EXCEPT !.dispatched = SentTo(1, chunks)],
                                              "channel")
                            /\ pc' = [pc EXCEPT ![Main] = AfterError]
                            /\ UNCHANGED idx

\* gets_images, lines 177-181: the reply of chunk idx[Main], written to the
\* stream verbatim.  recv is an Err when the worker has exited and its channel
\* is empty.
gets_recv ==
    /\ ~Crashed
    /\ pc[Main] = "gets_recv"
    /\ UNCHANGED <<cfgVars, cacheVars, lockVars, req, reqCh, client, completed>>
    /\ LET i == idx[Main]
           n == Len(thread_chunks(cur.paths, Cardinality(Workers)))
       IN  IF repCh[i] # <<>>
           THEN /\ repCh' = [repCh EXCEPT ![i] = Tail(@)]
                /\ \E ok \in IF faults < MaxFaults THEN BOOLEAN ELSE {TRUE} :
                      IF ok
                      THEN /\ sink' = [sink EXCEPT ![Main] = @ \o Head(repCh[i])]
                           /\ idx' = [idx EXCEPT ![Main] = IF i < n THEN i + 1 ELSE 0]
                           /\ pc' = [pc EXCEPT ![Main] = IF i < n THEN "gets_recv"
                                                         ELSE "gets_record"]
                           /\ UNCHANGED <<cur, faults>>
                      ELSE /\ cur' = Errored(cur, "transport")
                           /\ pc' = [pc EXCEPT ![Main] = AfterError]
                           /\ faults' = faults + 1
                           /\ UNCHANGED <<sink, idx>>
           ELSE /\ pc[i] = "exited"
                /\ cur' = Errored(cur, "channel")
                /\ pc' = [pc EXCEPT ![Main] = AfterError]
                /\ UNCHANGED <<sink, idx, repCh, faults>>

\* gets_images, lines 182-184: the batch key is recorded under the write guard.
gets_record ==
    /\ ~Crashed
    /\ pc[Main] = "gets_record"
    /\ CanWrite
    /\ cached_paths' = RecordBatch(cur.paths)
    /\ cur' = Returned(cur)
    /\ completed' = Completed(cur)
    /\ pc' = [pc EXCEPT ![Main] = "read"]
    /\ UNCHANGED <<cfgVars, cached_images, files, inserted, insert_log, lockVars, req, idx,
                   sink, reqCh, repCh, client, faults>>

\* ------------------------------------------------------------ specifications
Next ==
    \/ accept
    \/ read_eof
    \/ eof_read
    \/ \E a \in SetupArgs : setup(a[1], a[2], a[3])
    \/ clear_cache
    \/ \E p \in Paths, w \in Widths, h \in Heights : get(p, w, h)
    \/ \E paths \in Batches, w \in Widths, h \in Heights : gets_images(w, h, paths)
    \/ gets_recv
    \/ gets_record
    \/ \E i \in Workers : gets_thread(i)
    \/ \E t \in Threads : get_from_cache(t)
    \/ \E t \in Threads : disk_read(t)
    \/ \E t \in Threads : fetch(t)
    \/ \E t \in Threads : local_read(t)
    \/ \E t \in Threads : cache_img(t)

Spec == Init /\ [][Next]_vars

\* The steps a thread takes on its own, once it has a command or a request:
\* the operating system schedules every thread that can run.  What the clients
\* do (connect, send a command, close) is not in it.
ThreadStep(t) ==
    \/ get_from_cache(t)
    \/ disk_read(t)
    \/ fetch(t)
    \/ local_read(t)
    \/ cache_img(t)
    \/ (t = Main /\ (gets_recv \/ gets_record))
    \/ (t # Main /\ gets_thread(t))

SpecFair == Init /\ [][Next]_vars /\ \A t \in 0 .. PoolSize : WF_vars(ThreadStep(t))

\* The dispatcher alone, with the program's GETS_THREAD_COUNT workers, on path
\* lists of every length up to MaxBatchLen.
PathSeq == <<"a", "b", "ab">>
CyclicList(k, shift) == [i \in 1 .. k |-> PathSeq[((i + shift) % Len(PathSeq)) + 1]]
ChunkInputs == {CyclicList(k, shift) : k \in 0 .. MaxBatchLen, shift \in 0 .. 2}

InitChunks == Boot(GETS_THREAD_COUNT)

NextChunks ==
    \/ accept
    \/ \E paths \in ChunkInputs : gets_images(1, 1, paths)

SpecChunks == InitChunks /\ [][NextChunks]_vars

\* ------------------------------------------------------------ reading a response
IsPrefix(tok) == DOMAIN tok = {"len"}

\* The client's reading of a response: a 4-byte length, then that many bytes of
\* payload, until the bytes end.  ok is FALSE when the bytes do not parse.
RECURSIVE ParseFrames(_)
ParseFrames(bytes) ==
    IF bytes = <<>> THEN [ok |-> TRUE, payloads |-> <<>>]
    ELSE IF Len(bytes) < 2 \/ ~IsPrefix(bytes[1]) \/ IsPrefix(bytes[2])
    THEN [ok |-> FALSE, payloads |-> <<>>]
    ELSE IF bytes[1].len # BytesLen(bytes[2])
    THEN [ok |-> FALSE, payloads |-> <<>>]
    ELSE LET rest == ParseFrames(SubSeq(bytes, 3, Len(bytes)))
         IN  [ok |-> rest.ok, payloads |-> <<bytes[2]>> \o rest.payloads]

Response == ParseFrames(sink[Main])
Payloads == {sink[Main][i] : i \in {j \in DOMAIN sink[Main] : ~IsPrefix(sink[Main][j])}}

\* ------------------------------------------------------------ claims

\* What get_from_cache resolves a path to: NoFile when it has no entry or its
\* file is gone.
LookupBytes(p) ==
    LET e == cached_images[p]
    IN  IF e.tag = "InMemory" THEN e.bytes
        ELSE IF e.tag = "OnDisk" THEN files[e.id]
        ELSE NoFile

\* C1: a gets request that returned Ok has written, in the order of its paths,
\* exactly one well-formed frame per path p_i, whose payload is what get gives
\* for p_i: an encoding of p_i, or the bytes the cache resolves p_i to.
C1_BatchOrder ==
    (cur.kind = "gets" /\ cur.status = "ok") =>
        /\ Response.ok
        /\ Len(Response.payloads) = Len(cur.paths)
        /\ \A i \in DOMAIN cur.paths :
              \/ Response.payloads[i].src = cur.paths[i]
              \/ Response.payloads[i] = LookupBytes(cur.paths[i])

\* C2: between a cache_img of a path and the next clear_cache, the cache entry
\* of the path resolves to the bytes inserted last for it: an InMemory entry
\* holds them, an OnDisk(id) entry's file {id}.bmp exists and holds them.
C2_LookupReturnsInserted ==
    \A p \in Paths :
        inserted[p] # NoFile =>
            /\ cached_images[p] # NoEntry
            /\ cached_images[p].tag = "InMemory" => cached_images[p].bytes = inserted[p]
            /\ cached_images[p].tag = "OnDisk" => files[cached_images[p].id] = inserted[p]

\* C3: no two distinct paths of the cache index hold OnDisk entries with the
\* same id.
C3_UniqueDiskIds ==
    \A p, q \in Paths :
        (p # q /\ cached_images[p].tag = "OnDisk" /\ cached_images[q].tag = "OnDisk")
            => cached_images[p].id # cached_images[q].id

\* C4: every payload written for a get or gets request has the width and the
\* height of that request.
C4_ResizeContract ==
    cur.kind \in {"get", "gets"} =>
        \A b \in Payloads : b.w = cur.w /\ b.h = cur.h

\* C5: every path of every path list whose key is recorded in cached_paths is
\* a key of cached_images.
MaxListLen == 3
PathLists == UNION {[1 .. k -> Paths] : k \in 1 .. MaxListLen}
C5_RecordedBatchIsCached ==
    \A paths \in PathLists :
        all_cached(paths) => \A p \in Range(paths) : cached_images[p] # NoEntry

\* C6: a gets whose path list an earlier gets completed with, with no
\* clear_cache in between, sends nothing to the workers and does not wait for
\* them: Main serves it inline.
C6_RepeatServedInline ==
    (cur.kind = "gets" /\ cur.repeat) =>
        /\ ~cur.dispatched
        /\ pc[Main] \notin {"gets_recv", "gets_record", "crashed"}
        /\ cur.err \notin {"channel", "panic"}

\* C6 witness: a repeated gets has returned Ok with one frame per path.
C6_Witness ==
    /\ cur.kind = "gets" /\ cur.repeat /\ cur.status = "ok"
    /\ pc[Main] = "read"
    /\ Len(Response.payloads) = Len(cur.paths)
    /\ Len(cur.paths) >= 2

\* C7: once CACHE_DIR is set, no step changes the disk cache directory, the
\* threaded-reads flag or the working directory.
C7_SetupOnce ==
    [][CACHE_DIR # <<>> => UNCHANGED <<CACHE_DIR, THREADED_READS, cwd>>]_vars

\* C8: after a get or gets that failed with an error that is not a transport
\* error, Main is reading the next command of the same connection.
C8_ErrorKeepsConnection ==
    (cur.kind \in {"get", "gets"} /\ cur.status = "err"
        /\ cur.err \in {"config", "fetch", "write", "cache", "channel"})
        => pc[Main] = "read"

\* C9: a clear_cache step leaves cached_images and cached_paths empty and no
\* file that an OnDisk entry referenced before the step.
C9_ClearLeavesNothing ==
    [][(cur'.seq # cur.seq /\ cur'.kind = "clear_cache") =>
          /\ \A p \in Paths : cached_images'[p] = NoEntry
          /\ cached_paths' = {}
          /\ \A p \in Paths :
                cached_images[p].tag = "OnDisk" => files'[cached_images[p].id] = NoFile]_vars

\* C10: a gets with k >= 1 paths whose key is not recorded sends exactly
\* min(12, k) chunks, chunk i to worker i, none empty, which concatenated in
\* order are the path list.
C10_Chunking ==
    (cur.kind = "gets" /\ Len(cur.paths) >= 1 /\ ~cur.repeat) =>
        LET n == Min(GETS_THREAD_COUNT, Len(cur.paths))
        IN  /\ ~Crashed
            /\ \A i \in Workers : Len(reqCh[i]) = IF i <= n THEN 1 ELSE 0
            /\ \A i \in 1 .. n : reqCh[i][1].paths # <<>>
            /\ Flatten([i \in 1 .. n |-> reqCh[i][1].paths]) = cur.paths

\* ------------------------------------------------------------ what does hold
\* As long as no fetch, decode or stream write has failed, a gets that returned
\* Ok has written the frames of its paths in order.
BatchOrder_NoFailure == faults = 0 => C1_BatchOrder

\* A clear_cache step from a cache whose OnDisk ids are all distinct returns Ok
\* and leaves no entry, no batch key and no referenced file.
ClearLeavesNothing_DistinctIds ==
    [][(cur'.seq # cur.seq /\ cur'.kind = "clear_cache" /\ C3_UniqueDiskIds) =>
          /\ cur'.status = "ok"
          /\ \A p \in Paths : cached_images'[p] = NoEntry
          /\ cached_paths' = {}
          /\ \A p \in Paths :
                cached_images[p].tag = "OnDisk" => files'[cached_images[p].id] = NoFile]_vars

\* From GETS_THREAD_COUNT paths on, the dispatcher sends one non-empty chunk to
\* each worker, and the chunks concatenated in order are the path list.
Chunking_FromThreadCount ==
    (cur.kind = "gets" /\ Len(cur.paths) >= GETS_THREAD_COUNT) =>
        /\ ~Crashed
        /\ \A i \in Workers : Len(reqCh[i]) = 1 /\ reqCh[i][1].paths # <<>>
        /\ Flatten([i \in 1 .. GETS_THREAD_COUNT |-> reqCh[i][1].paths]) = cur.paths

\* ------------------------------------------------------------ claims: errors, locks, workers

\* C11: the step of a get in which the fetch, the codec or the cache insert
\* fails ends the request with that error, with nothing written to the stream
\* for the request, and leaves the cache index and the disk cache files as they
\* were.
C11_FailedGetLeavesNoTrace ==
    [][(cur.kind = "get" /\ cur.status = "run" /\ cur'.status = "err"
            /\ pc[Main] \in {"fetch", "localread", "insert"}
            /\ cur'.err \in {"config", "fetch", "write"}) =>
          /\ pc'[Main] \notin {"lookup", "fetch", "localread", "insert"}
          /\ sink'[Main] = <<>>
          /\ cached_images' = cached_images
          /\ files' = files]_vars

\* A get whose fetch, codec or insert fails writes nothing to the stream and
\* leaves the cache index as it was; only a failed write of the disk cache
\* file can leave that file changed.
FailedGetKeepsIndex ==
    [][(cur.kind = "get" /\ cur.status = "run" /\ cur'.status = "err"
            /\ pc[Main] \in {"fetch", "localread", "insert"}
            /\ cur'.err \in {"config", "fetch", "write"}) =>
          /\ pc'[Main] \notin {"lookup", "fetch", "localread", "insert"}
          /\ sink'[Main] = <<>>
          /\ cached_images' = cached_images
          /\ (cur'.err # "write" => files' = files)]_vars

\* C12: after the read of the length prefix returned zero bytes, the connection
\* loop has ended without an error and Main does not read from that stream
\* again: it is back at accepting the next connection.
C12_EofEndsLoop ==
    cur.kind = "eof" => (pc[Main] = "accept" /\ cur.status = "ok")

\* After a zero-byte read Main is reading from the closed stream again, and
\* the connection loop ends only with an error.
EofLoopsUntilError ==
    cur.kind = "eof" =>
        \/ pc[Main] = "eof_read" /\ cur.status = "ok"
        \/ pc[Main] \in {"accept", "read"} /\ cur.status = "err" /\ cur.err = "closed"

\* C13: no thread is reading a disk cache file while it holds the cache lock.
C13_DiskReadWithoutLock ==
    \A t \in Threads :
        pc[t] = "diskread" => (t \notin lockReaders /\ lockWriter # t)

\* A thread reads a disk cache file with its read guard held, and so no thread
\* holds the write guard meanwhile.
DiskReadUnderReadGuard ==
    \A t \in Threads :
        pc[t] = "diskread" => (t \in lockReaders /\ lockWriter = NoThread)

\* Positions at which a thread's next step reads or mutates the cache.
AtCache == {"lookup", "diskread", "insert", "gets_record"}

\* C14: a thread inside a local source read with the threaded-reads flag false
\* holds the write guard: it is the only one inside such a read, no thread
\* holds a read guard or is reading a disk cache file, and no step taken
\* meanwhile reads or changes the cache.  With the flag true, the step that
\* reads a local source file holds no guard and leaves the lock alone.
C14_LocalReadSerialised ==
    /\ [](\A t \in Threads :
            pc[t] = "localread" =>
                /\ THREADED_READS = <<FALSE>>
                /\ lockWriter = t
                /\ lockReaders = {}
                /\ \A u \in Threads \ {t} : pc[u] \notin {"localread", "diskread"})
    /\ [][\A t \in Threads :
            /\ pc[t] = "localread" =>
                  /\ UNCHANGED <<cached_images, cached_paths, files>>
                  /\ \A u \in Threads \ {t} : pc[u] \in AtCache => pc'[u] = pc[u]
                  /\ cur'.seq # cur.seq => cur'.kind \in {"setup", "get"}
            /\ (pc[t] = "fetch" /\ pc'[t] # "fetch" /\ THREADED_READS = <<TRUE>>) =>
                  /\ lockWriter # t /\ t \notin lockReaders
                  /\ UNCHANGED lockVars
                  /\ pc'[t] # "localread"]_vars

\* C14 witness: a worker is inside a local source read under the write guard
\* while another thread waits at a cache lookup or insert.
C14_Witness ==
    \E t \in Workers :
        /\ pc[t] = "localread" /\ lockWriter = t
        /\ \E u \in Threads \ {t} : pc[u] \in {"lookup", "insert"}

\* The workers a gets of `paths` sends a chunk to: none on the fast path.
Routed(paths) ==
    IF all_cached(paths) \/ ChunksPanics(paths, Cardinality(Workers)) THEN {}
    ELSE 1 .. Len(thread_chunks(paths, Cardinality(Workers)))

\* The step in which read_command reads a gets that routes a chunk to a worker
\* that has exited.
RoutesToExited ==
    /\ cur'.seq # cur.seq
    /\ cur'.kind = "gets"
    /\ \E i \in Routed(cur'.paths) : pc[i] = "exited"

\* Main waits for the reply of a worker that has exited and left none.
WaitsForExited ==
    /\ pc[Main] = "gets_recv"
    /\ pc[idx[Main]] = "exited"
    /\ repCh[idx[Main]] = <<>>

NeverRestarted == \A i \in Workers : pc[i] = "exited" => pc'[i] = "exited"

\* C15: a worker that has exited stays exited, and a gets that routes a chunk
\* to its slot goes on to wait for the replies and keeps waiting for the reply
\* of the exited worker.
C15_DeadWorkerBlocks ==
    [][/\ NeverRestarted
       /\ RoutesToExited => (pc'[Main] = "gets_recv" /\ cur'.status = "run")
       /\ WaitsForExited => pc'[Main] = "gets_recv"]_vars

\* C15, amended: a worker that has exited stays exited, and a gets that routes
\* a chunk to its slot fails with a channel error instead of waiting: at the
\* send when the worker had exited by then, at the receive when it exited
\* later and left no reply.
C15_DeadWorkerFailsBatch ==
    [][/\ NeverRestarted
       /\ RoutesToExited =>
             (cur'.status = "err" /\ cur'.err = "channel" /\ pc'[Main] = AfterError)
       /\ (WaitsForExited /\ pc'[Main] # "gets_recv") =>
             (cur'.status = "err" /\ cur'.err = "channel" /\ pc'[Main] = AfterError)]_vars

\* C15 witness: a gets read after worker 1 had exited has failed at its first
\* send.
C15_Witness ==
    /\ cur.kind = "gets" /\ cur.status = "err" /\ cur.err = "channel"
    /\ ~cur.dispatched
    /\ pc[1] = "exited"
    /\ pc[Main] = "accept"

\* C16: a dispatched gets returns Ok, and records its batch key, only after
\* every worker it routed a chunk to has replied for that chunk: none of them
\* has failed on the way, and the key of a gets that failed is not recorded.
C16_FailedBatchNotRecorded ==
    [][/\ (cur.kind = "gets" /\ cur.dispatched /\ cur.status = "run" /\ cur'.status = "ok") =>
             /\ \A i \in 1 .. Len(thread_chunks(cur.paths, Cardinality(Workers))) :
                    pc[i] # "exited"
             /\ cached_paths' = RecordBatch(cur.paths)
       /\ (cur'.status = "err" /\ cur'.kind = "gets") => cached_paths' = cached_paths]_vars

\* The batch key is recorded by the last step of a dispatched gets, after the
\* reply of every chunk was received and written, and by no other step: a gets
\* that fails records nothing.
RecordIsLastStep ==
    [][/\ (cur.kind = "gets" /\ cur.dispatched /\ cur.status = "run" /\ cur'.status = "ok") =>
             (pc[Main] = "gets_record" /\ cached_paths' = RecordBatch(cur.paths))
       /\ (cur'.status = "err" /\ cur'.kind = "gets") => cached_paths' = cached_paths
       /\ pc[Main] # "gets_record" => cached_paths' \subseteq cached_paths]_vars

\* C17: no step changes the tier of a path that has an entry before and after
\* the step: InMemory stays InMemory and OnDisk stays OnDisk until clear_cache
\* removes the entry.
C17_TierNeverChanges ==
    [][\A p \in Paths :
          (cached_images[p] # NoEntry /\ cached_images'[p] # NoEntry) =>
              cached_images'[p].tag = cached_images[p].tag]_vars

\* The entry of a path changes only by a clear_cache or by the cache_img of a
\* thread that had looked the path up before the entry was there.
EntryChangesOnlyByInsert ==
    [][\A p \in Paths :
          (cached_images[p] # NoEntry /\ cached_images'[p] # cached_images[p]) =>
              \/ cur'.kind = "clear_cache" /\ cur'.seq # cur.seq
              \/ \E t \in Threads :
                    pc[t] = "insert" /\ CurPath(t) = p /\ pc'[t] # "insert"]_vars

\* The step in which thread t's cache_img inserts (and does not return an Err).
Inserts(t) ==
    /\ pc[t] = "insert" /\ pc'[t] # "insert"
    /\ IF t = Main THEN cur'.err \notin {"config", "write"} ELSE pc'[t] # "exited"

\* C18: an insert writes an OnDisk entry exactly when the available memory
\* integer-divided by 10^9 is less than 2; the id is the number of entries just
\* before the insert, taken with no other thread holding the lock, so 0 on an
\* empty cache; and the first disk-tier insert after a clear_cache gets id 0.
C18_TierAndId ==
    [][\A t \in Threads :
          Inserts(t) =>
              LET e == cached_images'[CurPath(t)]
              IN  /\ lockWriter = NoThread /\ lockReaders = {}
                  /\ e.tag = "OnDisk" <=> (insert_log'.mem \div GIGA) < MIN_AVAILABLE_MEMORY
                  /\ e.tag = "OnDisk" => e.id = Cardinality(Keys)
                  /\ (e.tag = "OnDisk" /\ Keys = {}) => e.id = 0
                  /\ (e.tag = "OnDisk" /\ insert_log.cleared /\ insert_log.disk = 0)
                        => e.id = 0]_vars

\* C18, amended: the same, but the first disk-tier insert after a clear_cache
\* gets id 0 only when no insert came before it since the clear; otherwise its
\* id is the number of entries inserted since.
C18_TierAndIdOnEmpty ==
    [][\A t \in Threads :
          Inserts(t) =>
              LET e == cached_images'[CurPath(t)]
              IN  /\ lockWriter = NoThread /\ lockReaders = {}
                  /\ e.tag = "OnDisk" <=> (insert_log'.mem \div GIGA) < MIN_AVAILABLE_MEMORY
                  /\ e.tag = "OnDisk" => e.id = Cardinality(Keys)
                  /\ (e.tag = "OnDisk" /\ Keys = {}) => e.id = 0
                  /\ (e.tag = "OnDisk" /\ insert_log.cleared /\ insert_log.disk = 0
                        /\ insert_log.mem = 0) => e.id = 0]_vars

\* C18 witness: after a clear_cache, the only insert so far tiered to disk on a
\* reading below the threshold and got id 0.
C18_Witness ==
    /\ insert_log.cleared /\ insert_log.disk = 1
    /\ (insert_log.mem \div GIGA) < MIN_AVAILABLE_MEMORY
    /\ Cardinality(Keys) = 1
    /\ \E p \in Paths : cached_images[p] = OnDisk(0) /\ files[0] = inserted[p]

\* The step in which a gets sends its first chunk.
StartsDispatching == cur'.seq # cur.seq /\ cur'.kind = "gets" /\ cur'.dispatched

\* Every worker waits for a request with both its channels empty.
WorkersIdle ==
    \A i \in Workers :
        repCh[i] = <<>> /\ reqCh[i] = <<>> /\ pc[i] \in {"recv", "exited"}

\* C19: when a gets starts dispatching, every worker's reply channel is empty
\* and no worker is still at work on, or about to receive, a chunk of an
\* earlier request.
C19_RepliesOfThisBatch == [][StartsDispatching => WorkersIdle]_vars

\* As long as no fetch, decode, file write or stream write has failed, the
\* workers are idle whenever a gets starts dispatching.
RepliesOfThisBatch_NoFailure == [][(StartsDispatching /\ faults = 0) => WorkersIdle]_vars

\* A thread holds a guard only inside the disk cache read (read guard) or the
\* local source read (write guard), where its next step asks for no lock; so
\* it holds none where it asks for one or waits on a channel.
LockDiscipline ==
    \A t \in Threads :
        /\ t \in lockReaders => pc[t] = "diskread"
        /\ lockWriter = t => pc[t] = "localread"
        /\ pc[t] \in {"recv", "gets_recv", "lookup", "fetch", "insert", "gets_record", "read"}
              => (t \notin lockReaders /\ lockWriter # t)

\* Errors of a step of a request: the fetch, the codec, the cache, the stream
\* and the channels.
StepFailures == {"config", "fetch", "write", "cache", "transport", "channel"}

AllAlive == \A i \in 1 .. PoolSize : pc[i] # "exited"

\* C20: no thread asks for the cache lock while it holds it or holds it while
\* it waits on a channel, and, under fair scheduling, a gets none of whose
\* steps fails and whose workers are all alive returns Ok, its key recorded.
C20_NoDeadlock ==
    /\ []LockDiscipline
    /\ (cur.kind = "gets" /\ cur.status # "ok" /\ cur.err \notin StepFailures /\ AllAlive)
          ~> \/ cur.kind = "gets" /\ cur.status = "ok" /\ all_cached(cur.paths)
             \/ cur.kind = "gets" /\ cur.err \in StepFailures
             \/ ~AllAlive

\* The lock discipline holds, and under fair scheduling a gets that is at work
\* (its chunking did not panic) ends: it returns Ok or an Err, or a worker
\* exits.
GetsEndsUnlessPanic ==
    /\ []LockDiscipline
    /\ (cur.kind = "gets" /\ cur.status = "run")
          ~> (cur.status # "run" \/ ~AllAlive)

====
